---- MODULE Spec2Model ----
(***************************************************************************)
(* Model of the SmartRewards RPC query layer (src/rpc/smartrewards.cpp):   *)
(* the two entry points smartrewards and termrewards, the two critical     *)
(* sections cs_rewardsdb and cs_rewardscache they TRY_LOCK, the engine     *)
(* (prewards) they read, and the background process that shares the        *)
(* critical sections with them.                                            *)
(***************************************************************************)
EXTENDS Integers, Sequences, FiniteSets, TLC

(***************************************************************************)
(* Bounds of the model.                                                    *)
(***************************************************************************)
\* largest number the current reward round reaches
MaxRound == 3
\* longest argument string drawn from the alphabet
MaxLen == 2

(***************************************************************************)
(* Program constants.                                                      *)
(***************************************************************************)
\* minor units per major unit (amount.h), used by format and votekeys.h
COIN == 100000000
\* range of the C++ int that std::stoi returns
INT_MAX == 2147483647
\* Params().GetConsensus().nRewardsFirst_1_3_Round
nRewardsFirst_1_3_Round == 2
\* Params().GetConsensus().nRewardsPayoutStartDelay
nRewardsPayoutStartDelay == 200

(***************************************************************************)
(* Threads.  Every RPC query runs on a thread of its own; the background   *)
(* recomputation process is one more thread.                               *)
(***************************************************************************)
Queries == {"q1", "q2"}
Writer == "writer"
NoOwner == "none"

VARIABLES
    cs_rewardsdb,     \* owner of the durable-store critical section
    cs_rewardscache,  \* owner of the summary-cache critical section
    fDebug,           \* debug mode of the process
    synced,           \* prewards->IsSynced()
    currentRound,     \* *prewards->GetCurrentRound()
    rewardRounds,     \* *prewards->GetRewardRounds(), ascending by number
    rewardEntry,      \* the reward entry of the known address, or NoEntry
    termEntries,      \* the term-reward entries of the engine
    pc,               \* position of each query thread
    call,             \* entry point, fHelp and params of each invocation
    round,            \* the local variable round of payouts/snapshot
    attempts,         \* TRY_LOCK attempts of the invocation, per guard
    reads,            \* engine reads the invocation performed, in order
    ret               \* what the invocation returned or threw

engineVars == <<fDebug, synced, currentRound, rewardRounds, rewardEntry, termEntries>>
lockVars == <<cs_rewardsdb, cs_rewardscache>>
queryVars == <<pc, call, round, attempts, reads, ret>>
vars == <<cs_rewardsdb, cs_rewardscache, fDebug, synced, currentRound,
          rewardRounds, rewardEntry, termEntries, pc, call, round,
          attempts, reads, ret>>

(***************************************************************************)
(* C++ integer arithmetic: / truncates toward zero, % takes the sign of    *)
(* the dividend.                                                           *)
(***************************************************************************)
CDiv(a, b) == IF a >= 0 THEN a \div b ELSE -((-a) \div b)
CMod(a, b) == a - b * CDiv(a, b)

\* the double a / COIN + ( double(a % COIN) / COIN ), kept as its two terms
format(a) == [whole |-> CDiv(a, COIN), frac |-> CMod(a, COIN)]

(***************************************************************************)
(* Strings.  An argument string is a sequence of characters, so that       *)
(* std::stoi can be modelled by what it does to the characters.            *)
(***************************************************************************)
DigitChars == {"0", "1", "2", "3", "4", "5", "6", "7", "8", "9"}

DigitValue(c) ==
    CASE c = "0" -> 0 [] c = "1" -> 1 [] c = "2" -> 2 [] c = "3" -> 3
      [] c = "4" -> 4 [] c = "5" -> 5 [] c = "6" -> 6 [] c = "7" -> 7
      [] c = "8" -> 8 [] c = "9" -> 9

INT_MIN == (-INT_MAX) - 1

\* leading whitespace is skipped by strtol
RECURSIVE SkipSpace(_, _)
SkipSpace(s, i) ==
    IF i <= Len(s) /\ s[i] = " " THEN SkipSpace(s, i + 1) ELSE i

\* The digits from position i on, accumulated as a non-positive number so
\* that INT_MIN is representable; 1 marks a value outside the range of int.
RECURSIVE Accumulate(_, _, _)
Accumulate(s, i, acc) ==
    IF i > Len(s) \/ s[i] \notin DigitChars THEN acc
    ELSE LET d == DigitValue(s[i])
         IN  IF acc = 1 \/ acc < (INT_MIN + d + 9) \div 10
             THEN Accumulate(s, i + 1, 1)
             ELSE Accumulate(s, i + 1, acc * 10 - d)

\* std::stoi(str): optional whitespace, optional sign, the longest run of
\* digits; whatever follows the digits is ignored.  Throws invalid_argument
\* when there is no digit and out_of_range when the value does not fit int.
stoi(s) ==
    LET i == SkipSpace(s, 1)
        signed == i <= Len(s) /\ s[i] \in {"-", "+"}
        neg == i <= Len(s) /\ s[i] = "-"
        j == IF signed THEN i + 1 ELSE i
    IN  IF j > Len(s) \/ s[j] \notin DigitChars
        THEN [thrown |-> "invalid_argument", n |-> 0]
        ELSE LET m == Accumulate(s, j, 0)
             IN  IF m = 1 \/ (~neg /\ m = INT_MIN)
                 THEN [thrown |-> "out_of_range", n |-> 0]
                 ELSE [thrown |-> "none", n |-> IF neg THEN m ELSE -m]

(***************************************************************************)
(* Inputs of the queries.                                                  *)
(***************************************************************************)
Alphabet == {"0", "1", "2", "3", "4", "9", "-", " ", "a"}

RECURSIVE StringsUpTo(_)
StringsUpTo(n) ==
    IF n = 0 THEN {<<>>}
    ELSE LET shorter == StringsUpTo(n - 1)
         IN  shorter \cup {Append(s, c) : s \in shorter, c \in Alphabet}

\* a number that does not fit the C++ int
TooLong == <<"9", "9", "9", "9", "9", "9", "9", "9", "9", "9">>

CommandWords == {"current", "history", "payouts", "snapshot", "check"}

Call(fn, fHelp, params) == [fn |-> fn, fHelp |-> fHelp, params |-> params]

\* the calls of two clients that compete for the guards
NarrowCalls ==
    {Call("smartrewards", FALSE, p) :
        p \in {<<>>, <<"current">>, <<"history">>, <<"payouts", <<"1">> >>,
               <<"snapshot", <<"1">> >>, <<"check", <<"a">> >>, <<"check">>}}
      \cup {Call("smartrewards", TRUE, <<"current">>)}
      \cup {Call("termrewards", h, <<>>) : h \in BOOLEAN}

\* every string over the alphabet up to MaxLen characters, and one overflow
WideArgs == StringsUpTo(MaxLen) \cup {TooLong}

\* the calls that exercise the arguments of the commands
ArgCalls ==
    {Call("smartrewards", FALSE, p) :
        p \in {<<>>, <<"bogus">>} \cup {<<c>> : c \in CommandWords}
               \cup {<<c, a>> : c \in {"payouts", "snapshot"}, a \in WideArgs}
               \cup {<<"check", a>> : a \in {<<>>, <<"a">>, <<"a", "a">>, <<"1">>}}
               \cup {<<c, <<"1">>, <<"1">> >> : c \in {"payouts", "snapshot", "check"}}}
      \cup {Call("smartrewards", TRUE, p) : p \in {<<>>, <<"current">>, <<"bogus">>}}
      \cup {Call("termrewards", h, <<>>) : h \in BOOLEAN}

\* the calls that exercise the data of the engine
DataCalls ==
    {Call("smartrewards", FALSE, p) :
        p \in {<<"bogus">>, <<"current">>, <<"history">>, <<"check">>}
               \cup {<<c, a>> : c \in {"payouts", "snapshot"},
                                a \in {<<"1">>, <<"2">>, <<"a">>}}
               \cup {<<"check", a>> : a \in {<<"a">>, <<"a", "a">>, <<"1">>}}}
      \cup {Call("smartrewards", TRUE, <<"history">>)}
      \cup {Call("termrewards", h, <<>>) : h \in BOOLEAN}

\* CSmartAddress::Legacy(addressString).IsValid(): the address parser is an
\* external collaborator; two strings are valid addresses, one of them known
\* to the rewards database.
KnownAddress == <<"a">>
ValidAddresses == {<<"a">>, <<"a", "a">>}
IsValid(addressString) == addressString \in ValidAddresses

(***************************************************************************)
(* Engine data.  A round carries the fields the handlers read; the values  *)
(* of GetPayeeCount(), GetRewardBlocks() and GetLastRoundBlock() are kept  *)
(* as fields, and the result entries of the round are its payees.          *)
(***************************************************************************)
\* aggregates of a round the engine has not initialised
ZeroShape == [eligibleEntries |-> 0, eligibleSmart |-> 0,
              disqualifiedEntries |-> 0, disqualifiedSmart |-> 0,
              payees |-> 0]

\* aggregates a round can carry: disqualifications below and above the
\* recorded eligibility, with and without payees
WideShapes ==
    { [eligibleEntries |-> 100, eligibleSmart |-> 5000,
       disqualifiedEntries |-> 10, disqualifiedSmart |-> 100, payees |-> 3],
      [eligibleEntries |-> 10, eligibleSmart |-> COIN + 50,
       disqualifiedEntries |-> 12, disqualifiedSmart |-> COIN + 100,
       payees |-> 0] }

NarrowShapes ==
    { [eligibleEntries |-> 10, eligibleSmart |-> 50,
       disqualifiedEntries |-> 12, disqualifiedSmart |-> 100, payees |-> 2] }

\* result entries of a closed round: address id, balance and reward
ResultEntries(n) ==
    [i \in 1..n |-> [id |-> i, balance |-> i * COIN, reward |-> i * 1000]]

\* the round number n with the aggregates sh
MakeRound(n, sh) ==
    [number |-> n,
     startBlockHeight |-> n * 1000, startBlockTime |-> n * 1000,
     endBlockHeight |-> n * 1000 + 999, endBlockTime |-> n * 1000 + 999,
     eligibleEntries |-> sh.eligibleEntries,
     eligibleSmart |-> sh.eligibleSmart,
     disqualifiedEntries |-> sh.disqualifiedEntries,
     disqualifiedSmart |-> sh.disqualifiedSmart,
     rewards |-> 2 * COIN + 5, percent |-> 2,
     payeeCount |-> sh.payees, nBlockPayees |-> 2, nBlockInterval |-> 5,
     rewardBlocks |-> (sh.payees + 1) \div 2,
     lastRoundBlock |-> n * 1000 + 999 + nRewardsPayoutStartDelay
                          + ((sh.payees + 1) \div 2) * 5,
     results |-> ResultEntries(sh.payees)]

NoEntry == [found |-> FALSE]

\* a reward entry: balanceEligible and the value of its IsEligible()
MakeEntry(be, el) ==
    [found |-> TRUE, balance |-> COIN + be, balanceEligible |-> be,
     isSmartnode |-> FALSE, fActivated |-> el, isEligible |-> el]

WideEntries == {MakeEntry(be, el) : be \in {0, 1000}, el \in BOOLEAN}
NarrowEntries == {MakeEntry(1000, FALSE)}

TermEntry == [address |-> KnownAddress, txHash |-> 7, balance |-> 3 * COIN,
              level |-> 1, percent |-> 40, expires |-> 5000]
TermLists == {<<>>, <<TermEntry>>}

(***************************************************************************)
(* Initial states: a node that has just started.  No round exists, the     *)
(* engine is not synchronised, nobody holds a guard, no query is running.  *)
(***************************************************************************)
NoCall == [fn |-> "none", fHelp |-> FALSE, params |-> <<>>]
NoRet == [type |-> "none"]
NoAttempts == [db |-> 0, cache |-> 0]

InitWith(shapes) ==
    /\ cs_rewardsdb = NoOwner
    /\ cs_rewardscache = NoOwner
    /\ fDebug \in BOOLEAN
    /\ synced = FALSE
    /\ currentRound \in {MakeRound(0, sh) : sh \in shapes}
    /\ rewardRounds = <<>>
    /\ rewardEntry = NoEntry
    /\ termEntries = <<>>
    /\ pc = [q \in Queries |-> "idle"]
    /\ call = [q \in Queries |-> NoCall]
    /\ round = [q \in Queries |-> 0]
    /\ attempts = [q \in Queries |-> NoAttempts]
    /\ reads = [q \in Queries |-> <<>>]
    /\ ret = [q \in Queries |-> NoRet]

Init == InitWith({ZeroShape})

(***************************************************************************)
(* The background recomputation process.  It takes cs_rewardsdb before     *)
(* cs_rewardscache, blocks until a guard is free, may hold either guard    *)
(* for any time and changes the engine only while it holds both.           *)
(***************************************************************************)
WriterLockDb ==
    /\ cs_rewardsdb = NoOwner
    /\ cs_rewardscache # Writer
    /\ cs_rewardsdb' = Writer
    /\ UNCHANGED <<cs_rewardscache, engineVars, queryVars>>

WriterLockCache ==
    /\ cs_rewardscache = NoOwner
    /\ cs_rewardscache' = Writer
    /\ UNCHANGED <<cs_rewardsdb, engineVars, queryVars>>

WriterUnlockDb ==
    /\ cs_rewardsdb = Writer
    /\ cs_rewardsdb' = NoOwner
    /\ UNCHANGED <<cs_rewardscache, engineVars, queryVars>>

WriterUnlockCache ==
    /\ cs_rewardscache = Writer
    /\ cs_rewardscache' = NoOwner
    /\ UNCHANGED <<cs_rewardsdb, engineVars, queryVars>>

WriterHoldsBoth == cs_rewardsdb = Writer /\ cs_rewardscache = Writer

\* cycle transition: the current round is closed and the next one starts
WriterNextRound(shapes) ==
    /\ WriterHoldsBoth
    /\ currentRound.number < MaxRound
    /\ \E sh \in shapes :
         currentRound' = MakeRound(currentRound.number + 1, sh)
    /\ rewardRounds' = IF currentRound.number = 0 THEN rewardRounds
                       ELSE Append(rewardRounds, currentRound)
    /\ UNCHANGED <<fDebug, synced, rewardEntry, termEntries, lockVars, queryVars>>

WriterUpdateEntry(entries) ==
    /\ WriterHoldsBoth
    /\ \E e \in entries \cup {NoEntry} : rewardEntry' = e /\ e # rewardEntry
    /\ UNCHANGED <<fDebug, synced, currentRound, rewardRounds, termEntries,
                   lockVars, queryVars>>

WriterUpdateTerm ==
    /\ WriterHoldsBoth
    /\ \E t \in TermLists : termEntries' = t /\ t # termEntries
    /\ UNCHANGED <<fDebug, synced, currentRound, rewardRounds, rewardEntry,
                   lockVars, queryVars>>

\* the chain tip moves: the engine falls behind or catches up
WriterSync ==
    /\ synced' = ~synced
    /\ UNCHANGED <<fDebug, currentRound, rewardRounds, rewardEntry, termEntries,
                   lockVars, queryVars>>

(***************************************************************************)
(* What an invocation returns or throws.                                   *)
(***************************************************************************)
Result(v) == [type |-> "result", value |-> v]

JSONRPCError(code, text, arg) ==
    [type |-> "JSONRPCError", code |-> code,
     message |-> [text |-> text, arg |-> arg]]

\* the help text thrown as std::runtime_error
UsageError(fn) ==
    [type |-> "runtime_error", code |-> "none",
     message |-> [text |-> IF fn = "smartrewards"
                           THEN "smartrewards \"command\"..."
                           ELSE "termrewardds", arg |-> 0]]

MsgNotSynced == "Rewards database is not up to date."
MsgBusy == "Rewards database is busy..Try it again!"
MsgBusyTerm == "Rewards database is busy.  Try again"
MsgNoRound == "No active reward round available yet."
MsgNoHistory == "No finished reward round available yet."
MsgPastRound == "Past SmartReward round required: 1 - %d "
MsgNoList == "Couldn't fetch the list from the database."
MsgAddressRequired == "SmartCash address required."
MsgInvalidAddress == "Invalid SmartCash address provided: %s"
MsgNoAddress == "Couldn't find this SmartCash address in the database."
MsgNoTerm == "Failed to get TermRewards entries"

DbError(text) == JSONRPCError("RPC_DATABASE_ERROR", text, 0)

\* err of the payouts and snapshot handlers
PastRoundError(number) ==
    JSONRPCError("RPC_INVALID_PARAMETER", MsgPastRound, number - 1)

(***************************************************************************)
(* The objects the handlers build.                                         *)
(***************************************************************************)
\* percent * 100.0, percent being kept in hundredths
Times100(percent) == [num |-> percent * 100, den |-> 100]

\* smartrewards current
CurrentObj(current) ==
    [rewards_cycle |-> current.number,
     start_blockheight |-> current.startBlockHeight,
     start_blocktime |-> current.startBlockTime,
     end_blockheight |-> current.endBlockHeight,
     end_blocktime |-> current.endBlockTime,
     eligible_addresses |-> current.eligibleEntries - current.disqualifiedEntries,
     eligible_smart |-> format(current.eligibleSmart - current.disqualifiedSmart),
     disqualified_addresses |-> current.disqualifiedEntries,
     disqualified_smart |-> format(current.disqualifiedSmart),
     estimated_rewards |-> format(current.rewards),
     estimated_percent |-> Times100(current.percent)]

\* PayObj without the test of GetPayeeCount(): the schedule is always built
PayObjAlwaysSchedule(r) ==
    [firstBlock |-> r.endBlockHeight + nRewardsPayoutStartDelay,
     totalBlocks |-> r.rewardBlocks,
     lastBlock |-> r.lastRoundBlock,
     totalPayees |-> r.payeeCount,
     blockPayees |-> r.nBlockPayees,
     lastBlockPayees |-> CMod(r.payeeCount, r.nBlockPayees),
     blockInterval |-> r.nBlockInterval]

\* payObj of smartrewards history
PayObj(r) ==
    IF r.payeeCount # 0
    THEN [firstBlock |-> r.endBlockHeight + nRewardsPayoutStartDelay,
          totalBlocks |-> r.rewardBlocks,
          lastBlock |-> r.lastRoundBlock,
          totalPayees |-> r.payeeCount,
          blockPayees |-> r.nBlockPayees,
          lastBlockPayees |-> CMod(r.payeeCount, r.nBlockPayees),
          blockInterval |-> r.nBlockInterval]
    ELSE [None |-> "No payees were eligible for this round"]

\* the differences of smartrewards history as smartrewards current takes them
EligibleAddressesUnclamped(r) == r.eligibleEntries - r.disqualifiedEntries

\* the two clamped differences of smartrewards history
EligibleAddresses(r) ==
    IF (r.eligibleEntries - r.disqualifiedEntries) > 0
    THEN r.eligibleEntries - r.disqualifiedEntries ELSE 0

EligibleSmart(r) ==
    IF (r.eligibleSmart - r.disqualifiedSmart) > 0
    THEN r.eligibleSmart - r.disqualifiedSmart ELSE 0

\* roundObj of smartrewards history
RoundObj(r) ==
    [rewards_cycle |-> r.number,
     start_blockheight |-> r.startBlockHeight,
     start_blocktime |-> r.startBlockTime,
     end_blockheight |-> r.endBlockHeight,
     end_blocktime |-> r.endBlockTime,
     eligible_addresses |-> EligibleAddresses(r),
     eligible_smart |-> format(EligibleSmart(r)),
     disqualified_addresses |-> r.disqualifiedEntries,
     disqualified_smart |-> format(r.disqualifiedSmart),
     rewards |-> format(r.rewards),
     percent |-> Times100(r.percent),
     payouts |-> PayObj(r)]

HistoryArr(history) == [i \in 1..Len(history) |-> RoundObj(history[i])]

PayoutsArr(payouts) ==
    [i \in 1..Len(payouts) |->
        [address |-> payouts[i].id, reward |-> format(payouts[i].reward)]]

SnapshotArr(results) ==
    [i \in 1..Len(results) |->
        [address |-> results[i].id, balance |-> format(results[i].balance)]]

\* Eligible with the old rule kept for the threshold round itself
EligibleOffByOne(number, entry) ==
    IF number <= nRewardsFirst_1_3_Round
    THEN entry.balanceEligible > 0 ELSE entry.isEligible

\* the eligible flag of smartrewards check
Eligible(number, entry) ==
    IF number < nRewardsFirst_1_3_Round
    THEN entry.balanceEligible > 0 ELSE entry.isEligible

CheckObj(id, number, entry) ==
    [address |-> id,
     balance |-> format(entry.balance),
     balance_eligible |-> format(entry.balanceEligible),
     is_smartnode |-> entry.isSmartnode,
     activated |-> entry.fActivated,
     eligible |-> Eligible(number, entry)]

TermArr(entries) ==
    [i \in 1..Len(entries) |->
        [address |-> entries[i].address, tx_hash |-> entries[i].txHash,
         balance |-> format(entries[i].balance), level |-> entries[i].level,
         percent |-> entries[i].percent, expires |-> entries[i].expires]]

\* the requested round of payouts/snapshot: std::stoi inside the try block
ParseRound(str) ==
    LET p == stoi(str)
    IN  IF p.thrown \in {"invalid_argument", "out_of_range"}
        THEN [thrown |-> TRUE, round |-> 0]
        ELSE [thrown |-> FALSE, round |-> p.n]

\* the negation of round < 1 || round >= current->number
InRange(r, number) == ~(r < 1 \/ r >= number)

(***************************************************************************)
(* The query threads.  Each step is one access to shared state together    *)
(* with the local computation that follows it.                             *)
(***************************************************************************)
strCommand(q) == IF Len(call[q].params) >= 1 THEN call[q].params[1] ELSE ""

\* a CCriticalBlock going out of scope unlocks what it locked
Released(owner, q) == IF owner = q THEN NoOwner ELSE owner

\* Exit with the guards given back by hand on the return path only: a throw
\* leaves them locked
ExitLeakingOnThrow(q, r) ==
    /\ pc' = [pc EXCEPT ![q] = "done"]
    /\ ret' = [ret EXCEPT ![q] = r]
    /\ cs_rewardsdb' = IF r.type = "result" THEN Released(cs_rewardsdb, q)
                       ELSE cs_rewardsdb
    /\ cs_rewardscache' = IF r.type = "result" THEN Released(cs_rewardscache, q)
                          ELSE cs_rewardscache

\* return or throw: the stack is unwound and both lock objects are destroyed
Exit(q, r) ==
    /\ pc' = [pc EXCEPT ![q] = "done"]
    /\ ret' = [ret EXCEPT ![q] = r]
    /\ cs_rewardsdb' = Released(cs_rewardsdb, q)
    /\ cs_rewardscache' = Released(cs_rewardscache, q)

Goto(q, label) ==
    /\ pc' = [pc EXCEPT ![q] = label]
    /\ UNCHANGED ret

Read(q, what) == reads' = [reads EXCEPT ![q] = Append(@, what)]

\* WantsUsage that forgets fHelp once the command is a known one
WantsUsageUnlessCommand(c) ==
    IF c.fn = "smartrewards"
    THEN (IF Len(c.params) >= 1 THEN c.params[1] ELSE "") \notin CommandWords
    ELSE c.fHelp

\* the help test at the head of smartrewards and of termrewards
WantsUsage(c) ==
    IF c.fn = "smartrewards"
    THEN c.fHelp \/ (IF Len(c.params) >= 1 THEN c.params[1] ELSE "") \notin CommandWords
    ELSE c.fHelp

\* A client calls smartrewards or termrewards with one of the calls; the
\* entry point reads strCommand and throws the help text (smartrewards
\* lines 28-47, termrewards lines 280-300) or goes on to the freshness test.
Invoke(q, calls) ==
    /\ pc[q] = "idle"
    /\ \E c \in calls :
         /\ call' = [call EXCEPT ![q] = c]
         /\ IF WantsUsage(c)
            THEN Exit(q, UsageError(c.fn))
            ELSE Goto(q, "synced") /\ UNCHANGED lockVars
    /\ UNCHANGED <<engineVars, round, attempts, reads>>

\* CheckSynced without the fDebug test
CheckSyncedIgnoringDebug(q) ==
    /\ pc[q] = "synced"
    /\ reads' = [reads EXCEPT ![q] = Append(@, "IsSynced")]
    /\ IF ~synced
       THEN Exit(q, DbError(MsgNotSynced))
       ELSE Goto(q, "lockdb") /\ UNCHANGED lockVars
    /\ UNCHANGED <<engineVars, call, round, attempts>>

\* if( !fDebug && !prewards->IsSynced() ): IsSynced is called only when
\* fDebug is false
CheckSynced(q) ==
    /\ pc[q] = "synced"
    /\ reads' = [reads EXCEPT ![q] = IF fDebug THEN @ ELSE Append(@, "IsSynced")]
    /\ IF ~fDebug /\ ~synced
       THEN Exit(q, DbError(MsgNotSynced))
       ELSE Goto(q, "lockdb") /\ UNCHANGED lockVars
    /\ UNCHANGED <<engineVars, call, round, attempts>>

\* the statement that follows the durable-store guard
AfterLockDb(q) ==
    IF call[q].fn = "smartrewards" /\ strCommand(q) = "check"
    THEN "params" ELSE "lockcache"

\* TryLockDb that lets the current command go on without the guard
TryLockDbExceptCurrent(q) ==
    /\ pc[q] = "lockdb"
    /\ attempts' = [attempts EXCEPT ![q].db = @ + 1]
    /\ IF cs_rewardsdb = NoOwner
       THEN /\ cs_rewardsdb' = q
            /\ Goto(q, AfterLockDb(q))
            /\ UNCHANGED cs_rewardscache
       ELSE IF call[q].fn = "smartrewards" /\ strCommand(q) = "current"
       THEN Goto(q, AfterLockDb(q)) /\ UNCHANGED lockVars
       ELSE Exit(q, DbError(IF call[q].fn = "smartrewards"
                            THEN MsgBusy ELSE MsgBusyTerm))
    /\ UNCHANGED <<engineVars, call, round, reads>>

\* TryLockDb as a blocking LOCK: the thread waits until the guard is free
TryLockDbBlocking(q) ==
    /\ pc[q] = "lockdb"
    /\ cs_rewardsdb = NoOwner
    /\ attempts' = [attempts EXCEPT ![q].db = @ + 1]
    /\ cs_rewardsdb' = q
    /\ Goto(q, AfterLockDb(q))
    /\ UNCHANGED <<cs_rewardscache, engineVars, call, round, reads>>

\* TryLockDb without the test of lockRewardsDb
TryLockDbUnchecked(q) ==
    /\ pc[q] = "lockdb"
    /\ attempts' = [attempts EXCEPT ![q].db = @ + 1]
    /\ cs_rewardsdb' = IF cs_rewardsdb = NoOwner THEN q ELSE cs_rewardsdb
    /\ Goto(q, AfterLockDb(q))
    /\ UNCHANGED <<cs_rewardscache, engineVars, call, round, reads>>

\* TRY_LOCK(cs_rewardsdb, lockRewardsDb); if (!lockRewardsDb) throw
TryLockDb(q) ==
    /\ pc[q] = "lockdb"
    /\ attempts' = [attempts EXCEPT ![q].db = @ + 1]
    /\ IF cs_rewardsdb = NoOwner
       THEN /\ cs_rewardsdb' = q
            /\ Goto(q, AfterLockDb(q))
            /\ UNCHANGED cs_rewardscache
       ELSE Exit(q, DbError(IF call[q].fn = "smartrewards"
                            THEN MsgBusy ELSE MsgBusyTerm))
    /\ UNCHANGED <<engineVars, call, round, reads>>

\* smartrewards check: if (params.size() != 2) throw
CheckParams(q) ==
    /\ pc[q] = "params"
    /\ IF Len(call[q].params) # 2
       THEN Exit(q, JSONRPCError("RPC_INVALID_PARAMETER", MsgAddressRequired, 0))
       ELSE Goto(q, "lockcache") /\ UNCHANGED lockVars
    /\ UNCHANGED <<engineVars, call, round, attempts, reads>>

\* the engine read that follows the summary-cache guard
AfterLockCache(q) ==
    IF call[q].fn = "termrewards" THEN "termentries"
    ELSE IF strCommand(q) = "history" THEN "rounds" ELSE "current"

\* TryLockCache without the test of cacheLocked
TryLockCacheUnchecked(q) ==
    /\ pc[q] = "lockcache"
    /\ attempts' = [attempts EXCEPT ![q].cache = @ + 1]
    /\ cs_rewardscache' = IF cs_rewardscache = NoOwner THEN q ELSE cs_rewardscache
    /\ Goto(q, AfterLockCache(q))
    /\ UNCHANGED <<cs_rewardsdb, engineVars, call, round, reads>>

\* TRY_LOCK(cs_rewardscache, cacheLocked); if(!cacheLocked) throw
TryLockCache(q) ==
    /\ pc[q] = "lockcache"
    /\ attempts' = [attempts EXCEPT ![q].cache = @ + 1]
    /\ IF cs_rewardscache = NoOwner
       THEN /\ cs_rewardscache' = q
            /\ Goto(q, AfterLockCache(q))
            /\ UNCHANGED cs_rewardsdb
       ELSE Exit(q, DbError(MsgBusy))
    /\ UNCHANGED <<engineVars, call, round, reads>>

\* CurrentBody that takes a round without entries for the missing round
CurrentBodyTestingEntries(q) ==
    /\ IF currentRound.eligibleEntries = 0
       THEN Exit(q, DbError(MsgNoRound))
       ELSE Exit(q, Result(CurrentObj(currentRound)))
    /\ UNCHANGED round

\* CurrentBody that goes on to read the history under the same guards
CurrentBodyThenHistory(q) ==
    /\ IF currentRound.number = 0
       THEN Exit(q, DbError(MsgNoRound))
       ELSE Goto(q, "rounds") /\ UNCHANGED lockVars
    /\ UNCHANGED round

\* current: lines 66-82
CurrentBody(q) ==
    /\ IF currentRound.number = 0
       THEN Exit(q, DbError(MsgNoRound))
       ELSE Exit(q, Result(CurrentObj(currentRound)))
    /\ UNCHANGED round

\* what a round request comes to: a throw, or the round to list
Throws(error) == [thrown |-> TRUE, error |-> error, round |-> 0]
Accepts(n) == [thrown |-> FALSE, error |-> NoRet, round |-> n]

\* payouts, lines 150-169: the tests between GetCurrentRound and the read of
\* the payout list
PayoutsRequest(params, number) ==
    LET err == JSONRPCError("RPC_INVALID_PARAMETER", MsgPastRound, number - 1)
    IN  IF number = 0 THEN Throws(DbError(MsgNoRound))
        ELSE IF Len(params) # 2 THEN Throws(err)
        ELSE LET parsed == ParseRound(params[2])
             IN  IF parsed.thrown THEN Throws(err)
                 ELSE IF ~InRange(parsed.round, number) THEN Throws(err)
                 ELSE Accepts(parsed.round)

\* SnapshotRequest that takes the current round for a past one
SnapshotRequestUpToCurrent(params, number) ==
    LET err == JSONRPCError("RPC_INVALID_PARAMETER",
                            "Past SmartReward round required: 1 - %d ",
                            number - 1)
    IN  IF number = 0
        THEN Throws(JSONRPCError("RPC_DATABASE_ERROR",
                                 "No active reward round available yet.", 0))
        ELSE IF Len(params) # 2 THEN Throws(err)
        ELSE LET n == stoi(params[2])
                 round0 == IF n.thrown = "none" THEN n.n ELSE 0
             IN  IF n.thrown = "invalid_argument" THEN Throws(err)
                 ELSE IF n.thrown = "out_of_range" THEN Throws(err)
                 ELSE IF round0 < 1 \/ round0 > number THEN Throws(err)
                 ELSE Accepts(round0)

\* snapshot, lines 198-217: the tests between GetCurrentRound and the read
\* of the snapshot list
SnapshotRequest(params, number) ==
    LET err == JSONRPCError("RPC_INVALID_PARAMETER",
                            "Past SmartReward round required: 1 - %d ",
                            number - 1)
    IN  IF number = 0
        THEN Throws(JSONRPCError("RPC_DATABASE_ERROR",
                                 "No active reward round available yet.", 0))
        ELSE IF Len(params) # 2 THEN Throws(err)
        ELSE LET n == stoi(params[2])
                 round0 == IF n.thrown = "none" THEN n.n ELSE 0
             IN  IF n.thrown = "invalid_argument" THEN Throws(err)
                 ELSE IF n.thrown = "out_of_range" THEN Throws(err)
                 ELSE IF round0 < 1 \/ round0 >= number THEN Throws(err)
                 ELSE Accepts(round0)

\* payouts and snapshot after GetCurrentRound: throw, or go on to the list
RoundBody(q, next, request) ==
    IF request.thrown
    THEN Exit(q, request.error) /\ UNCHANGED round
    ELSE /\ round' = [round EXCEPT ![q] = request.round]
         /\ Goto(q, next)
         /\ UNCHANGED lockVars

\* check: lines 246-253; current is only dereferenced at line 266
AddressBody(q) ==
    /\ IF ~IsValid(call[q].params[2])
       THEN Exit(q, DbError(MsgInvalidAddress))
       ELSE Goto(q, "entry_lookup") /\ UNCHANGED lockVars
    /\ UNCHANGED round

\* prewards->GetCurrentRound() and what the command does with it
GetCurrentRound(q) ==
    /\ pc[q] = "current"
    /\ Read(q, "GetCurrentRound")
    /\ CASE strCommand(q) = "current" -> CurrentBody(q)
         [] strCommand(q) = "payouts"
              -> RoundBody(q, "payouts",
                           PayoutsRequest(call[q].params, currentRound.number))
         [] strCommand(q) = "snapshot"
              -> RoundBody(q, "results",
                           SnapshotRequest(call[q].params, currentRound.number))
         [] strCommand(q) = "check" -> AddressBody(q)
    /\ UNCHANGED <<engineVars, call, attempts>>

\* history: lines 93-139
GetRewardRounds(q) ==
    /\ pc[q] = "rounds"
    /\ Read(q, "GetRewardRounds")
    /\ IF Len(rewardRounds) = 0
       THEN Exit(q, DbError(MsgNoHistory))
       ELSE Exit(q, Result(HistoryArr(rewardRounds)))
    /\ UNCHANGED <<engineVars, call, round, attempts>>

\* payouts: lines 171-187; the database read may fail
GetRewardPayouts(q) ==
    /\ pc[q] = "payouts"
    /\ Read(q, "GetRewardPayouts")
    /\ \E fetched \in BOOLEAN :
         IF ~fetched
         THEN Exit(q, DbError(MsgNoList))
         ELSE Exit(q, Result(PayoutsArr(rewardRounds[round[q]].results)))
    /\ UNCHANGED <<engineVars, call, round, attempts>>

\* snapshot: lines 219-235
GetRewardRoundResults(q) ==
    /\ pc[q] = "results"
    /\ Read(q, "GetRewardRoundResults")
    /\ \E fetched \in BOOLEAN :
         IF ~fetched
         THEN Exit(q, DbError(MsgNoList))
         ELSE Exit(q, Result(SnapshotArr(rewardRounds[round[q]].results)))
    /\ UNCHANGED <<engineVars, call, round, attempts>>

\* GetRewardEntry called with fCreate = true: a missing entry is created
GetRewardEntryCreating(q) ==
    /\ pc[q] = "entry_lookup"
    /\ Read(q, "GetRewardEntry")
    /\ LET id == call[q].params[2]
           entry == IF rewardEntry.found THEN rewardEntry ELSE MakeEntry(0, FALSE)
       IN  /\ rewardEntry' = IF id = KnownAddress THEN entry ELSE rewardEntry
           /\ IF id # KnownAddress
              THEN Exit(q, DbError(MsgNoAddress))
              ELSE Exit(q, Result(CheckObj(id, currentRound.number, entry)))
    /\ UNCHANGED <<fDebug, synced, currentRound, rewardRounds, termEntries,
                   call, round, attempts>>

\* check: lines 255-268
GetRewardEntry(q) ==
    /\ pc[q] = "entry_lookup"
    /\ Read(q, "GetRewardEntry")
    /\ LET id == call[q].params[2]
       IN  IF id # KnownAddress \/ ~rewardEntry.found
           THEN Exit(q, DbError(MsgNoAddress))
           ELSE Exit(q, Result(CheckObj(id, currentRound.number, rewardEntry)))
    /\ UNCHANGED <<engineVars, call, round, attempts>>

\* GetTermRewardsEntries that takes an empty map for a failed read
GetTermRewardsEntriesRefusingEmpty(q) ==
    /\ pc[q] = "termentries"
    /\ \E fetched \in BOOLEAN :
         /\ Read(q, IF fetched THEN "GetTermRewardsEntries"
                    ELSE "GetTermRewardsEntries failed")
         /\ IF ~fetched \/ Len(termEntries) = 0
            THEN Exit(q, DbError(MsgNoTerm))
            ELSE Exit(q, Result(TermArr(termEntries)))
    /\ UNCHANGED <<engineVars, call, round, attempts>>

\* termrewards: lines 317-331; the read may fail, which the log records
GetTermRewardsEntries(q) ==
    /\ pc[q] = "termentries"
    /\ \E fetched \in BOOLEAN :
         /\ Read(q, IF fetched THEN "GetTermRewardsEntries"
                    ELSE "GetTermRewardsEntries failed")
         /\ IF ~fetched
            THEN Exit(q, DbError(MsgNoTerm))
            ELSE Exit(q, Result(TermArr(termEntries)))
    /\ UNCHANGED <<engineVars, call, round, attempts>>

\* the RPC thread has delivered the reply and waits for the next request
Reply(q) ==
    /\ pc[q] = "done"
    /\ pc' = [pc EXCEPT ![q] = "idle"]
    /\ call' = [call EXCEPT ![q] = NoCall]
    /\ round' = [round EXCEPT ![q] = 0]
    /\ attempts' = [attempts EXCEPT ![q] = NoAttempts]
    /\ reads' = [reads EXCEPT ![q] = <<>>]
    /\ ret' = [ret EXCEPT ![q] = NoRet]
    /\ UNCHANGED <<lockVars, engineVars>>

(***************************************************************************)
(* Specifications.                                                         *)
(***************************************************************************)
\* the steps of a query thread after the call
QueryStep(q) ==
    \/ CheckSynced(q)
    \/ TryLockDb(q)
    \/ CheckParams(q)
    \/ TryLockCache(q)
    \/ GetCurrentRound(q)
    \/ GetRewardRounds(q)
    \/ GetRewardPayouts(q)
    \/ GetRewardRoundResults(q)
    \/ GetRewardEntry(q)
    \/ GetTermRewardsEntries(q)
    \/ Reply(q)

\* the background process taking and giving back the guards
WriterLocks ==
    \/ WriterLockDb
    \/ WriterLockCache
    \/ WriterUnlockDb
    \/ WriterUnlockCache

\* two concurrent queries and the background process, few inputs
Next ==
    \/ \E q \in Queries : Invoke(q, NarrowCalls)
    \/ \E q \in Queries : QueryStep(q)
    \/ WriterLocks
    \/ WriterNextRound(NarrowShapes)
    \/ WriterSync

Spec == Init /\ [][Next]_vars

\* one query at a time, every argument string
NextArgs ==
    \/ Invoke("q1", ArgCalls)
    \/ QueryStep("q1")
    \/ WriterLocks
    \/ WriterNextRound(NarrowShapes)
    \/ WriterSync

SpecArgs == Init /\ [][NextArgs]_vars

\* one query at a time, every shape of the engine's data
NextData ==
    \/ Invoke("q1", DataCalls)
    \/ QueryStep("q1")
    \/ WriterLocks
    \/ WriterNextRound(WideShapes)
    \/ WriterUpdateEntry(WideEntries)
    \/ WriterUpdateTerm
    \/ WriterSync

InitData == InitWith({ZeroShape} \cup WideShapes)

SpecData == InitData /\ [][NextData]_vars

\* the queries are scheduled: a thread that can take a step takes it; the
\* background process may keep a guard for ever
FairSpec == Spec /\ \A q \in Queries : WF_vars(QueryStep(q))

(***************************************************************************)
(* The error kinds of the query protocol, told apart by code and message.  *)
(***************************************************************************)
IsUsage(r) == r.type = "runtime_error"
IsStale(r) == r = DbError(MsgNotSynced)
IsBusy(r) == r \in {DbError(MsgBusy), DbError(MsgBusyTerm)}
IsNotReady(r) == r \in {DbError(MsgNoRound), DbError(MsgNoHistory)}
IsInvalidArgument(r) ==
    \/ r.type = "JSONRPCError" /\ r.code = "RPC_INVALID_PARAMETER"
    \/ r = DbError(MsgInvalidAddress)
IsNotFound(r) == r \in {DbError(MsgNoAddress), DbError(MsgNoList)}
IsDataAccessError(r) == r \in {DbError(MsgNoList), DbError(MsgNoTerm)}

\* the reads of rounds, entries and results among the engine reads
DataOf(rs) == SelectSeq(rs, LAMBDA what : what # "IsSynced")

Recognized(q) == call[q].fn = "smartrewards" /\ strCommand(q) \in CommandWords

(***************************************************************************)
(* C1  Busy semantics: when a smartrewards query with a recognized command *)
(* tries the durable-store guard while another actor holds it, the query   *)
(* fails with Busy at once: no attempt on the summary-cache guard, no      *)
(* handler entered, no round, entry or result data read.                   *)
(***************************************************************************)
BusyOnStoreGuard ==
    [][\A q \in Queries :
         (/\ pc[q] = "lockdb"
          /\ pc'[q] # "lockdb"
          /\ Recognized(q)
          /\ cs_rewardsdb # NoOwner)
         => /\ pc'[q] = "done"
            /\ ret'[q] = DbError(MsgBusy)
            /\ attempts'[q] = [db |-> 1, cache |-> 0]
            /\ DataOf(reads'[q]) = <<>>
            /\ cs_rewardsdb' = cs_rewardsdb]_vars

\* a current query that found the store guard taken and failed with Busy
BusyOnStoreGuardWitness ==
    \E q \in Queries :
        /\ pc[q] = "done"
        /\ call[q].fn = "smartrewards" /\ strCommand(q) = "current"
        /\ ret[q] = DbError(MsgBusy)
        /\ attempts[q] = [db |-> 1, cache |-> 0]
        /\ cs_rewardsdb \notin {NoOwner, q}

(***************************************************************************)
(* C2  Queries never block: an invocation tries each guard at most once    *)
(* and completes with a result or an error, also when the background       *)
(* process keeps a guard for ever.                                         *)
(***************************************************************************)
QueriesNeverBlock ==
    /\ [](\A q \in Queries : attempts[q].db <= 1 /\ attempts[q].cache <= 1)
    /\ \A q \in Queries : (pc[q] \notin {"idle", "done"}) ~> (pc[q] = "done")

\* termrewards completed with Busy on the cache guard the writer still holds
QueriesNeverBlockWitness ==
    \E q \in Queries :
        /\ pc[q] = "done"
        /\ call[q].fn = "termrewards"
        /\ IsBusy(ret[q])
        /\ attempts[q] = [db |-> 1, cache |-> 1]
        /\ cs_rewardscache = Writer

(***************************************************************************)
(* C3  Lock ordering: a query tries the summary-cache guard only while it  *)
(* holds the durable-store guard, and never holds the summary-cache guard  *)
(* without the durable-store guard.                                        *)
(***************************************************************************)
StoreBeforeCache ==
    \A q \in Queries :
        (pc[q] = "lockcache" \/ cs_rewardscache = q) => cs_rewardsdb = q

\* a query holds both guards and is about to read
StoreBeforeCacheWitness ==
    \E q \in Queries :
        /\ cs_rewardsdb = q /\ cs_rewardscache = q
        /\ pc[q] \in {"current", "rounds", "payouts", "results",
                      "entry_lookup", "termentries"}

(***************************************************************************)
(* C4  Guards are released on every exit path: a query that has completed, *)
(* with a result or with any error, holds neither guard.                   *)
(***************************************************************************)
GuardsReleased ==
    \A q \in Queries :
        pc[q] \in {"done", "idle"} => cs_rewardsdb # q /\ cs_rewardscache # q

\* a query that held both guards and failed after reading
GuardsReleasedWitness ==
    \E q \in Queries :
        /\ pc[q] = "done"
        /\ attempts[q] = [db |-> 1, cache |-> 1]
        /\ DataOf(reads[q]) # <<>>
        /\ ret[q].type = "JSONRPCError"
        /\ cs_rewardsdb = NoOwner /\ cs_rewardscache = NoOwner

(***************************************************************************)
(* C5  Freshness gate: outside debug mode a query on an engine that is not *)
(* synchronized fails with Stale before any guard is tried and before any  *)
(* data is read, whatever the guards' state; in debug mode it goes on to   *)
(* the durable-store guard.                                                *)
(***************************************************************************)
FreshnessGate ==
    [][\A q \in Queries :
         (pc[q] = "synced" /\ pc'[q] # "synced")
         => IF ~fDebug /\ ~synced
            THEN /\ pc'[q] = "done"
                 /\ IsStale(ret'[q])
                 /\ attempts'[q] = NoAttempts
                 /\ DataOf(reads'[q]) = <<>>
                 /\ UNCHANGED lockVars
            ELSE /\ pc'[q] = "lockdb"
                 /\ ret'[q] = NoRet]_vars

\* a query refused as stale while the writer holds both guards
FreshnessGateWitness ==
    \E q \in Queries :
        /\ pc[q] = "done"
        /\ IsStale(ret[q])
        /\ attempts[q] = NoAttempts
        /\ ~fDebug /\ ~synced
        /\ cs_rewardsdb = Writer /\ cs_rewardscache = Writer

(***************************************************************************)
(* C6  Usage error is terminal and free of side effects: a smartrewards    *)
(* call with no command, an unknown command or fHelp gets the help text    *)
(* without the freshness test, without a guard attempt and without a read, *)
(* whatever the engine's and the guards' state.                            *)
(***************************************************************************)
UsageCase(c) ==
    /\ c.fn = "smartrewards"
    /\ \/ c.fHelp
       \/ Len(c.params) = 0
       \/ Len(c.params) >= 1 /\ c.params[1] \notin CommandWords

UsageIsTerminal ==
    \A q \in Queries :
        UsageCase(call[q])
        => /\ pc[q] = "done"
           /\ ret[q] = UsageError("smartrewards")
           /\ reads[q] = <<>>
           /\ attempts[q] = NoAttempts
           /\ cs_rewardsdb # q /\ cs_rewardscache # q

\* help asked with a known command, engine stale, writer holding the guards
UsageIsTerminalWitness ==
    \E q \in Queries :
        /\ pc[q] = "done"
        /\ call[q] = Call("smartrewards", TRUE, <<"current">>)
        /\ IsUsage(ret[q])
        /\ ~fDebug /\ ~synced
        /\ cs_rewardsdb = Writer /\ cs_rewardscache = Writer

(***************************************************************************)
(* C7  Round-range validation: payouts and snapshot accept the argument    *)
(* iff it is an integer r with 1 <= r < c, c the current round number;     *)
(* 0, c, c+1, negative values and every string that is not a number are    *)
(* rejected with the same InvalidArgument error, and the result list is    *)
(* read only for accepted requests.                                        *)
(***************************************************************************)
\* the string is a decimal integer: an optional minus sign and digits only
IsIntegerString(s) ==
    /\ Len(s) >= 1
    /\ IF s[1] = "-"
       THEN Len(s) >= 2 /\ \A k \in 2..Len(s) : s[k] \in DigitChars
       ELSE \A k \in 1..Len(s) : s[k] \in DigitChars

RECURSIVE DecimalValue(_, _)
DecimalValue(s, n) ==
    IF n = 0 THEN 0 ELSE DecimalValue(s, n - 1) * 10 + DigitValue(s[n])

\* the string is an integer r with 1 <= r < c
IsPastRound(s, c) ==
    /\ IsIntegerString(s)
    /\ s[1] # "-"
    /\ Len(s) <= 9
    /\ 1 <= DecimalValue(s, Len(s))
    /\ DecimalValue(s, Len(s)) < c

RoundRangeValidation ==
    \A q \in Queries :
        (/\ call[q].fn = "smartrewards"
         /\ strCommand(q) \in {"payouts", "snapshot"}
         /\ Len(call[q].params) = 2)
        => LET arg == call[q].params[2]
           IN  /\ pc[q] \in {"payouts", "results"}
                    => IsPastRound(arg, currentRound.number)
               /\ (pc[q] = "done" /\ IsInvalidArgument(ret[q]))
                    => /\ ret[q].message.text = MsgPastRound
                       /\ ~IsPastRound(arg, ret[q].message.arg + 1)
               /\ (pc[q] = "done" /\ Len(DataOf(reads[q])) > 1)
                    => IsIntegerString(arg) /\ round[q] >= 1

(***************************************************************************)
(* C8  Current-cycle query on an uninitialized round: once past the gate   *)
(* and the guards, the current command fails with NotReady whenever the    *)
(* current round's number is 0, whatever its other fields, and returns a   *)
(* result whenever the number is not 0.                                    *)
(***************************************************************************)
CurrentNeedsRound ==
    [][\A q \in Queries :
         (/\ pc[q] = "current"
          /\ pc'[q] # "current"
          /\ strCommand(q) = "current")
         => IF currentRound.number = 0
            THEN ret'[q] = DbError(MsgNoRound)
            ELSE /\ ret'[q].type = "result"
                 /\ ret'[q].value.rewards_cycle = currentRound.number]_vars

\* NotReady for a round numbered 0 whose aggregates are not zero
CurrentNeedsRoundWitness ==
    \E q \in Queries :
        /\ pc[q] = "done"
        /\ strCommand(q) = "current"
        /\ IsNotReady(ret[q])
        /\ currentRound.number = 0
        /\ currentRound.eligibleEntries # 0

(***************************************************************************)
(* C9  History clamps to zero: for every closed round of the history       *)
(* output, eligible_addresses is max(0, eligibleEntries -                  *)
(* disqualifiedEntries) and eligible_smart is the formatted max(0,         *)
(* eligibleSmart - disqualifiedSmart); neither is negative.                *)
(***************************************************************************)
Max0(x) == IF x < 0 THEN 0 ELSE x

HistoryClamps ==
    \A q \in Queries :
        (/\ pc[q] = "done"
         /\ call[q].fn = "smartrewards" /\ strCommand(q) = "history"
         /\ ret[q].type = "result")
        => /\ Len(ret[q].value) >= 1
           /\ Len(ret[q].value) <= Len(rewardRounds)
           /\ \A i \in 1..Len(ret[q].value) :
                LET r == rewardRounds[i]
                    o == ret[q].value[i]
                    smart == Max0(r.eligibleSmart - r.disqualifiedSmart)
                IN  /\ o.rewards_cycle = r.number
                    /\ o.eligible_addresses
                         = Max0(r.eligibleEntries - r.disqualifiedEntries)
                    /\ o.eligible_addresses >= 0
                    /\ o.eligible_smart.whole = smart \div COIN
                    /\ o.eligible_smart.frac = smart % COIN
                    /\ o.eligible_smart.whole >= 0
                    /\ o.eligible_smart.frac >= 0

\* a history with the round 10/12 clamped to 0 and the round 100/10 giving
\* 90 addresses and format(4900)
HistoryClampsWitness ==
    \E q \in Queries :
        /\ pc[q] = "done"
        /\ strCommand(q) = "history"
        /\ ret[q].type = "result"
        /\ \E i, j \in 1..Len(ret[q].value) :
             /\ rewardRounds[i].eligibleEntries = 10
             /\ rewardRounds[i].disqualifiedEntries = 12
             /\ ret[q].value[i].eligible_addresses = 0
             /\ ret[q].value[i].eligible_smart = [whole |-> 0, frac |-> 0]
             /\ rewardRounds[j].eligibleEntries = 100
             /\ rewardRounds[j].disqualifiedEntries = 10
             /\ ret[q].value[j].eligible_addresses = 90
             /\ ret[q].value[j].eligible_smart = [whole |-> 0, frac |-> 4900]

(***************************************************************************)
(* C10  Address-check eligibility switches rule at the version threshold:  *)
(* below the threshold the eligible flag is balanceEligible > 0, at or     *)
(* above it the flag is the entry's IsEligible(); where the rules disagree *)
(* the threshold alone decides.                                            *)
(***************************************************************************)
EligibilitySwitch ==
    [][\A q \in Queries :
         (/\ pc[q] = "entry_lookup"
          /\ pc'[q] # "entry_lookup"
          /\ ret'[q].type = "result")
         => /\ currentRound.number < nRewardsFirst_1_3_Round
                 => ret'[q].value.eligible = (rewardEntry.balanceEligible > 0)
            /\ currentRound.number >= nRewardsFirst_1_3_Round
                 => ret'[q].value.eligible = rewardEntry.isEligible]_vars

\* at the threshold round an entry without eligible balance is reported
\* eligible because its own predicate says so
EligibilitySwitchWitness ==
    \E q \in Queries :
        /\ pc[q] = "done"
        /\ strCommand(q) = "check"
        /\ ret[q].type = "result"
        /\ currentRound.number = nRewardsFirst_1_3_Round
        /\ rewardEntry.found
        /\ rewardEntry.balanceEligible = 0 /\ rewardEntry.isEligible
        /\ ret[q].value.eligible = TRUE

(***************************************************************************)
(* C11  Reads are serialized only against the writer: while the background *)
(* process holds neither guard, concurrent queries never make each other   *)
(* fail with Busy; a query fails with Busy only because the writer holds   *)
(* the guard it tried.                                                     *)
(***************************************************************************)
BusyOnlyFromWriter ==
    [][\A q \in Queries :
         (/\ pc[q] \in {"lockdb", "lockcache"}
          /\ pc'[q] = "done"
          /\ IsBusy(ret'[q]))
         => \/ cs_rewardsdb = Writer
            \/ cs_rewardscache = Writer]_vars

HistoryCarriesPayouts ==
    \A q \in Queries :
        (/\ pc[q] = "done"
         /\ call[q].fn = "smartrewards" /\ strCommand(q) = "history"
         /\ ret[q].type = "result")
        => \A i \in 1..Len(ret[q].value) :
             LET r == rewardRounds[i]
                 o == ret[q].value[i]
             IN  /\ "payouts" \in DOMAIN o
                 /\ IF r.payeeCount = 0
                    THEN o.payouts = [None |-> "No payees were eligible for this round"]
                    ELSE /\ DOMAIN o.payouts
                              = {"firstBlock", "totalBlocks", "lastBlock",
                                 "totalPayees", "blockPayees",
                                 "lastBlockPayees", "blockInterval"}
                         /\ o.payouts.firstBlock
                              = r.endBlockHeight + nRewardsPayoutStartDelay
                         /\ o.payouts.totalPayees = r.payeeCount
                         /\ o.payouts.lastBlockPayees
                              = r.payeeCount % r.nBlockPayees

\* a history holding a round without payees and a round with three of them
HistoryCarriesPayoutsWitness ==
    \E q \in Queries :
        /\ pc[q] = "done"
        /\ strCommand(q) = "history"
        /\ ret[q].type = "result"
        /\ \E i, j \in 1..Len(ret[q].value) :
             /\ rewardRounds[i].payeeCount = 0
             /\ DOMAIN ret[q].value[i].payouts = {"None"}
             /\ rewardRounds[j].payeeCount = 3
             /\ ret[q].value[j].payouts.lastBlockPayees = 1
             /\ ret[q].value[j].payouts.firstBlock
                  = rewardRounds[j].endBlockHeight + nRewardsPayoutStartDelay

(***************************************************************************)
(* C14  Queries are read-only: no step of a smartrewards or termrewards    *)
(* invocation, whatever its outcome, changes the engine's rounds, current  *)
(* round, reward entries, result lists, term-reward entries or             *)
(* synchronized flag.                                                      *)
(***************************************************************************)
QueriesAreReadOnly ==
    [][(\E q \in Queries : pc'[q] # pc[q]) => UNCHANGED engineVars]_vars

\* a check that found no entry has left the engine without one
QueriesAreReadOnlyWitness ==
    \E q \in Queries :
        /\ pc[q] = "done"
        /\ strCommand(q) = "check"
        /\ ret[q] = DbError(MsgNoAddress)
        /\ call[q].params[2] = KnownAddress
        /\ ~rewardEntry.found
        /\ Len(rewardRounds) > 0

(***************************************************************************)
(* C15  Address-check is short-circuited by an uninitialized round: once   *)
(* check holds both guards and reads a current round whose number is 0, it *)
(* fails with "No active reward round available yet." and neither looks up *)
(* the entry nor computes the eligible flag.                               *)
(***************************************************************************)
CheckNeedsRound ==
    [][\A q \in Queries :
         (/\ pc[q] = "current"
          /\ pc'[q] # "current"
          /\ strCommand(q) = "check"
          /\ currentRound.number = 0)
         => /\ pc'[q] = "done"
            /\ ret'[q] = DbError(MsgNoRound)]_vars

(***************************************************************************)
(* C16  Callers clamp before formatting: the current command reports a     *)
(* non-negative eligible_addresses and formats                             *)
(* max(0, eligibleSmart - disqualifiedSmart), so that the amount it        *)
(* reports is never negative, even when the disqualifications exceed the   *)
(* recorded eligibility.                                                   *)
(***************************************************************************)
CurrentClampsBeforeFormat ==
    \A q \in Queries :
        (/\ pc[q] = "done"
         /\ call[q].fn = "smartrewards" /\ strCommand(q) = "current"
         /\ ret[q].type = "result")
        => /\ ret[q].value.eligible_addresses >= 0
           /\ ret[q].value.eligible_smart.whole >= 0
           /\ ret[q].value.eligible_smart.frac >= 0

(***************************************************************************)
(* C17  Payouts and snapshot share one control flow: after the cache guard *)
(* and the read of the current round, each of the two commands ends as the *)
(* tests of the other one say, for every engine state, argument count and  *)
(* argument value: the same error with the same message, or the read of    *)
(* its own list for the same round; the failed read of either list gives   *)
(* the same error, and the two differ only in the list they read.          *)
(***************************************************************************)
TheOtherRequest(q) ==
    IF strCommand(q) = "payouts"
    THEN SnapshotRequest(call[q].params, currentRound.number)
    ELSE PayoutsRequest(call[q].params, currentRound.number)

PayoutsAndSnapshotShareFlow ==
    [][\A q \in Queries :
         (/\ call[q].fn = "smartrewards"
          /\ strCommand(q) \in {"payouts", "snapshot"}
          /\ pc'[q] # pc[q])
         => /\ pc[q] = "lockcache" /\ pc'[q] # "done" => pc'[q] = "current"
            /\ pc[q] = "current"
                 => IF TheOtherRequest(q).thrown
                    THEN /\ pc'[q] = "done"
                         /\ ret'[q] = TheOtherRequest(q).error
                    ELSE /\ pc'[q] = IF strCommand(q) = "payouts"
                                     THEN "payouts" ELSE "results"
                         /\ round'[q] = TheOtherRequest(q).round
            /\ pc[q] \in {"payouts", "results"}
                 => /\ pc'[q] = "done"
                    /\ DataOf(reads'[q])
                         = <<"GetCurrentRound",
                             IF strCommand(q) = "payouts"
                             THEN "GetRewardPayouts"
                             ELSE "GetRewardRoundResults">>
                    /\ \/ ret'[q] = DbError(MsgNoList)
                       \/ /\ ret'[q].type = "result"
                          /\ Len(ret'[q].value) = Len(rewardRounds[round[q]].results)
                          /\ \A i \in 1..Len(ret'[q].value) :
                               DOMAIN ret'[q].value[i]
                                 = {"address", IF strCommand(q) = "payouts"
                                               THEN "reward" ELSE "balance"}]_vars

\* snapshot has refused the current round as payouts does
PayoutsAndSnapshotShareFlowWitness ==
    \E q \in Queries :
        /\ pc[q] = "done"
        /\ strCommand(q) = "snapshot"
        /\ Len(call[q].params) = 2
        /\ call[q].params[2] = <<"2">>
        /\ reads[q] # <<>>
        /\ currentRound.number = 2
        /\ ret[q] = PastRoundError(2)

(***************************************************************************)
(* C18  Malformed argument count is a usage error that touches no data: a  *)
(* payouts, snapshot or check command given a number of arguments other    *)
(* than one does not try the summary-cache guard, reads no data of the     *)
(* engine, and does not fail with InvalidArgument or NotReady.             *)
(***************************************************************************)
ArgumentCountIsUsage ==
    \A q \in Queries :
        (/\ call[q].fn = "smartrewards"
         /\ strCommand(q) \in {"payouts", "snapshot", "check"}
         /\ Len(call[q].params) # 2)
        => /\ attempts[q].cache = 0
           /\ DataOf(reads[q]) = <<>>
           /\ pc[q] = "done"
                => /\ ~IsInvalidArgument(ret[q])
                   /\ ~IsNotReady(ret[q])

(***************************************************************************)
(* C19  One logical read per guard hold: between taking a guard and giving *)
(* it back a query performs at most one read on the engine; no command     *)
(* holds a guard across two reads.                                         *)
(***************************************************************************)
OneReadPerHold ==
    \A q \in Queries : Len(DataOf(reads[q])) <= 1

(***************************************************************************)
(* C19, amended  A query keeps its guards from the moment it takes them    *)
(* until it returns or throws, and performs at most two reads on the       *)
(* engine in that hold: current, history and termrewards one read;         *)
(* payouts, snapshot and check the read of the current round followed, if  *)
(* the arguments pass, by the read of the list or of the entry, both under *)
(* the same hold of both guards.                                           *)
(***************************************************************************)
ReadsOf(q) ==
    IF call[q].fn = "termrewards"
    THEN {<<"GetTermRewardsEntries">>, <<"GetTermRewardsEntries failed">>}
    ELSE CASE strCommand(q) = "current" -> {<<"GetCurrentRound">>}
           [] strCommand(q) = "history" -> {<<"GetRewardRounds">>}
           [] strCommand(q) = "payouts"
                -> {<<"GetCurrentRound">>, <<"GetCurrentRound", "GetRewardPayouts">>}
           [] strCommand(q) = "snapshot"
                -> {<<"GetCurrentRound">>,
                    <<"GetCurrentRound", "GetRewardRoundResults">>}
           [] strCommand(q) = "check"
                -> {<<"GetCurrentRound">>, <<"GetCurrentRound", "GetRewardEntry">>}
           [] OTHER -> {}

AtMostTwoReadsPerHold ==
    \A q \in Queries :
        /\ DataOf(reads[q]) # <<>> => DataOf(reads[q]) \in ReadsOf(q)
        /\ (DataOf(reads[q]) # <<>> /\ pc[q] # "done")
             => cs_rewardsdb = q /\ cs_rewardscache = q

\* payouts between its two reads, both guards still held
AtMostTwoReadsPerHoldWitness ==
    \E q \in Queries :
        /\ pc[q] = "payouts"
        /\ strCommand(q) = "payouts"
        /\ DataOf(reads[q]) = <<"GetCurrentRound">>
        /\ cs_rewardsdb = q /\ cs_rewardscache = q
        /\ round[q] = 1

(***************************************************************************)
(* C20  Consistent snapshot per query: every read of the current round,    *)
(* the round history, a result list, a reward entry or the term entries    *)
(* is made by a query that holds both cs_rewardsdb and cs_rewardscache, so *)
(* the data of the engine does not change between two reads of one query,  *)
(* and the round that payouts or snapshot has validated is still a past    *)
(* round of the engine when the list is read.                              *)
(***************************************************************************)
BetweenReads == {"payouts", "results", "entry_lookup"}

ConsistentSnapshot ==
    [][\A q \in Queries :
         /\ (pc[q] # "done" /\ DataOf(reads'[q]) # DataOf(reads[q]))
              => cs_rewardsdb = q /\ cs_rewardscache = q
         /\ pc[q] \in BetweenReads
              => /\ cs_rewardsdb = q /\ cs_rewardscache = q
                 /\ UNCHANGED <<currentRound, rewardRounds, rewardEntry,
                                termEntries>>
         /\ pc[q] \in {"payouts", "results"}
              => /\ InRange(round[q], currentRound.number)
                 /\ round[q] \in 1..Len(rewardRounds)]_vars

\* snapshot holds both guards between the read of the current round, whose
\* number 2 made round 1 a past round, and the read of the list of round 1
ConsistentSnapshotWitness ==
    \E q \in Queries :
        /\ pc[q] = "results"
        /\ strCommand(q) = "snapshot"
        /\ DataOf(reads[q]) = <<"GetCurrentRound">>
        /\ cs_rewardsdb = q /\ cs_rewardscache = q
        /\ round[q] = 1
        /\ currentRound.number = 2
        /\ Len(rewardRounds) = 1

====
